---- MODULE Spec2Model ----
(***************************************************************************)
(* terraform-provider-nps: the binary's two modes (main.go), the provider  *)
(* configuration (NPSProvider.Configure), credential resolution, the token *)
(* file and the OAuth per-RPC credentials (package auth), and the          *)
(* configuration validation of nps_workshop_rule.                          *)
(*                                                                         *)
(* One invocation of the binary is main -> (login | serve -> Configure ->  *)
(* RPCs) -> exit; the token file outlives invocations.  Every handler is   *)
(* one action; the outcomes of the remote parties (the client-ID fetch,    *)
(* the device authorization, the token endpoint) are inputs drawn with \E. *)
(* The file system is changed by this program only: the directory holding  *)
(* the token file exists or not for the whole behaviour, and a write fails *)
(* exactly when it does not exist (os.WriteFile creates no directories).   *)
(***************************************************************************)
EXTENDS Integers, FiniteSets, Sequences, TLC

\* ------------------------------------------------------------------ bounds
MaxTokens == 2   \* tokens the OAuth server issues in one behaviour
MaxTime   == 3   \* last instant of the clock
MaxRuns   == 3   \* invocations of the binary in one behaviour

\* --------------------------------------------------------------- constants
Localhost   == "localhost:8080"
Prod        == "workshop.example.com"
EnvKey      == "env-key"
CfgKey      == "cfg-key"
TokenTTL    == 1     \* lifetime carried in the exp claim of an issued JWT

VARIABLES
    pc,                  \* position of main: "main", "login", "serve", "serving", "exited"
    runs,                \* invocations started so far
    loginServer,         \* the -login flag
    cfgEndpoint,         \* provider config: endpoint
    cfgApiKey,           \* provider config: api_key
    envApiKey,           \* WORKSHOP_API_KEY
    envNpsEndpoint,      \* NPS_ENDPOINT
    envWorkshopEndpoint, \* WORKSHOP_ENDPOINT
    configDir,           \* does ~/.config exist
    tokenFile,           \* content of ~/.config/tf_nps_token.json
    now,                 \* clock
    nextId,              \* next token the OAuth server issues
    loginCalls,          \* calls of GetAndStoreToken in this invocation
    loginErr,            \* result of GetAndStoreToken in this invocation
    served,              \* providerserver.Serve was started in this invocation
    configured,          \* Configure has run in this invocation
    diags,               \* resp.Diagnostics of Configure
    authErr,             \* error returned by APIKeyOrToken ("notcalled" before)
    fetch,               \* the client-ID fetch of Configure: "notcalled", "ok", "failed"
    registered,          \* resource types handed to the host by Resources
    creds,               \* the PerRPCCredentials APIKeyOrToken returned
    client,              \* resp.ResourceData: the gRPC client
    lastMeta,            \* result of the last GetRequestMetadata
    fileAtStart,         \* token file when this invocation started
    prevLoginOK,         \* the previous invocation was a successful login
    deviceFlows,         \* device authorizations requested in this invocation
    rpc,                 \* position of the rule validation: "input", "validated"
    rPolicy, rCelExpr, rBlockReason,   \* nps_workshop_rule configuration
    rDiags,              \* resp.Diagnostics of the rule's config validator
    kind,                \* resource type the host manages in this behaviour
    config,              \* the resource's block in the configuration: <<>> or <<c>>
    tfstate,             \* the resource in the Terraform state: <<>> or <<data>>
    remote,              \* objects of this type held by the Workshop service
    nextRuleId,          \* next ID the Workshop service assigns
    op,                  \* the handler or outside change that acted last
    listed,              \* the service's answer to the last Read's list RPC
    cdiags,              \* resp.Diagnostics of the last handler
    sent,                \* RPCs the last handler sent
    request,             \* the object carried in the last create RPC: <<>> or <<o>>
    priorState,          \* tfstate before the last handler
    priorRemote,         \* remote before the last handler
    phase,               \* the host's apply: "idle", "refreshed", "replacing"
    replaced,            \* the last Create finished a replacement
    made,                \* keys of the objects this provider created remotely
    removed,             \* keys of the objects this provider deleted remotely
    anyError             \* some handler so far ended with an error diagnostic

authVars == <<pc, runs, loginServer, cfgEndpoint, cfgApiKey, envApiKey,
              envNpsEndpoint, envWorkshopEndpoint, configDir, tokenFile, now,
              nextId, loginCalls, loginErr, served, configured, diags, authErr,
              fetch, registered, creds, client, lastMeta, fileAtStart, prevLoginOK, deviceFlows>>
ruleVars == <<rpc, rPolicy, rCelExpr, rBlockReason, rDiags>>
crudVars == <<kind, config, tfstate, remote, nextRuleId, op, listed, cdiags,
              sent, request, priorState, priorRemote, phase, replaced, made, removed,
              anyError>>
vars == <<authVars, ruleVars, crudVars>>

\* ------------------------------------------------------------ oauth2.Token
\* access = 0 is the empty string; jwtExp is the exp claim inside the access
\* token's JWT (0: the string carries none); expiry = 0 is the zero time; raw
\* is the unexported field holding the server's response.
NoToken == [access |-> 0, jwtExp |-> 0, refresh |-> 0, expiry |-> 0, raw |-> FALSE]

\* files: absent, content that is not JSON, or a JSON object
AbsentFile  == [kind |-> "absent",  access |-> 0, jwtExp |-> 0, refresh |-> 0, expiry |-> 0]
GarbageFile == [kind |-> "garbage", access |-> 0, jwtExp |-> 0, refresh |-> 0, expiry |-> 0]
EmptyJSON   == [kind |-> "json",    access |-> 0, jwtExp |-> 0, refresh |-> 0, expiry |-> 0]
\* the file an earlier login left: its token has expired by now
OldFile     == [kind |-> "json", access |-> MaxTokens + 1, jwtExp |-> 1,
                refresh |-> MaxTokens + 1, expiry |-> 1]

\* Marshal that loses the refresh token
Marshal_dropsRefresh(t) ==
    [kind |-> "json", access |-> t.access, jwtExp |-> t.jwtExp,
     refresh |-> 0, expiry |-> t.expiry]

\* json.Marshal(token): the exported fields only
Marshal(t) ==
    [kind |-> "json", access |-> t.access, jwtExp |-> t.jwtExp,
     refresh |-> t.refresh, expiry |-> t.expiry]

\* json.Unmarshal(fileContent, &t)
Unmarshal(f) ==
    [access |-> f.access, jwtExp |-> f.jwtExp, refresh |-> f.refresh,
     expiry |-> f.expiry, raw |-> FALSE]

\* ------------------------------------------------------------ package auth
\* addTokenExpiry: keep an expiry that is set, else take the JWT's exp claim
addTokenExpiry(t) ==
    IF t.expiry # 0 THEN t
    ELSE IF t.jwtExp = 0 THEN t
    ELSE [t EXCEPT !.expiry = t.jwtExp]

\* apiTokenFromFile that hands back whatever bytes the file holds
apiTokenFromFile_noParseCheck(dir, f) ==
    IF ~dir \/ f.kind = "absent" THEN [ok |-> FALSE, tok |-> NoToken]
    ELSE IF f.kind = "json" /\ f.access = 0 /\ f.refresh = 0
         THEN [ok |-> FALSE, tok |-> NoToken]
    ELSE [ok |-> TRUE, tok |-> Unmarshal(f)]

\* apiTokenFromFile without the test for an empty token
apiTokenFromFile_noEmptyCheck(dir, f) ==
    IF ~dir \/ f.kind = "absent" THEN [ok |-> FALSE, tok |-> NoToken]
    ELSE IF f.kind = "garbage" THEN [ok |-> FALSE, tok |-> NoToken]
    ELSE [ok |-> TRUE, tok |-> Unmarshal(f)]

\* apiTokenFromFile: [ok |-> FALSE] is the nil result
apiTokenFromFile(dir, f) ==
    IF ~dir \/ f.kind = "absent" THEN [ok |-> FALSE, tok |-> NoToken]
    ELSE IF f.kind = "garbage" THEN [ok |-> FALSE, tok |-> NoToken]
    ELSE IF f.access = 0 /\ f.refresh = 0 THEN [ok |-> FALSE, tok |-> NoToken]
    ELSE [ok |-> TRUE, tok |-> Unmarshal(f)]

\* writeTokenToFile that reports success without writing
writeTokenToFile_noWrite(dir, f, t) ==
    IF dir THEN [err |-> FALSE, file |-> f]
    ELSE [err |-> TRUE, file |-> f]

\* writeTokenToFile: os.WriteFile fails when the directory is missing
writeTokenToFile(dir, f, t) ==
    IF dir THEN [err |-> FALSE, file |-> Marshal(t)]
    ELSE [err |-> TRUE, file |-> f]

\* deleteTokenFromFile: os.Remove
deleteTokenFromFile(dir, f) ==
    IF dir /\ f.kind # "absent" THEN [err |-> FALSE, file |-> AbsentFile]
    ELSE [err |-> TRUE, file |-> f]

\* createConfig: fetch the client ID from the endpoint's well-known URL
createConfig(endpoint, httpOK) ==
    LET insecure == (endpoint = Localhost)
        scheme   == IF endpoint = Localhost THEN "http" ELSE "https"
    IN  [err |-> ~httpOK, insecure |-> insecure, scheme |-> scheme, host |-> endpoint]

NilCreds == [kind |-> "nil", key |-> "", tok |-> NoToken, insecure |-> FALSE]
apiKeyAuthorizer(k) == [kind |-> "apikey", key |-> k, tok |-> NoToken, insecure |-> FALSE]
oauthRPCCreds(t, insecure) == [kind |-> "oauth", key |-> "", tok |-> t, insecure |-> insecure]

\* RequireTransportSecurity of the two PerRPCCredentials
RequireTransportSecurity(c) ==
    IF c.kind = "oauth" THEN ~c.insecure ELSE FALSE

\* APIKeyOrToken that looks at the configured key before the environment
APIKeyOrToken_keyFirst(env, inputKey, serverURL, httpOK, dir, f) ==
    IF inputKey # "" THEN [creds |-> apiKeyAuthorizer(inputKey), err |-> "none", fetched |-> FALSE]
    ELSE IF env # "" THEN [creds |-> apiKeyAuthorizer(env), err |-> "none", fetched |-> FALSE]
    ELSE LET cfg == createConfig(serverURL, httpOK) IN
         IF cfg.err THEN [creds |-> NilCreds, err |-> "clientid", fetched |-> TRUE]
         ELSE LET token == apiTokenFromFile(dir, f) IN
              IF token.ok
              THEN [creds |-> oauthRPCCreds(token.tok, cfg.insecure), err |-> "none", fetched |-> TRUE]
              ELSE [creds |-> NilCreds, err |-> "notloggedin", fetched |-> TRUE]

\* APIKeyOrToken that returns no error when it found no token
APIKeyOrToken_noError(env, inputKey, serverURL, httpOK, dir, f) ==
    IF env # "" THEN [creds |-> apiKeyAuthorizer(env), err |-> "none", fetched |-> FALSE]
    ELSE IF inputKey # "" THEN [creds |-> apiKeyAuthorizer(inputKey), err |-> "none", fetched |-> FALSE]
    ELSE LET cfg == createConfig(serverURL, httpOK) IN
         IF cfg.err THEN [creds |-> NilCreds, err |-> "clientid", fetched |-> TRUE]
         ELSE LET token == apiTokenFromFile(dir, f) IN
              IF token.ok
              THEN [creds |-> oauthRPCCreds(token.tok, cfg.insecure), err |-> "none", fetched |-> TRUE]
              ELSE [creds |-> NilCreds, err |-> "none", fetched |-> TRUE]

\* APIKeyOrToken: env holds WORKSHOP_API_KEY
APIKeyOrToken(env, inputKey, serverURL, httpOK, dir, f) ==
    IF env # "" THEN [creds |-> apiKeyAuthorizer(env), err |-> "none", fetched |-> FALSE]
    ELSE IF inputKey # "" THEN [creds |-> apiKeyAuthorizer(inputKey), err |-> "none", fetched |-> FALSE]
    ELSE LET cfg == createConfig(serverURL, httpOK) IN
         IF cfg.err THEN [creds |-> NilCreds, err |-> "clientid", fetched |-> TRUE]
         ELSE LET token == apiTokenFromFile(dir, f) IN
              IF token.ok
              THEN [creds |-> oauthRPCCreds(token.tok, cfg.insecure), err |-> "none", fetched |-> TRUE]
              ELSE [creds |-> NilCreds, err |-> "notloggedin", fetched |-> TRUE]

\* the token the OAuth server answers with: no expiry in the response
IssuedToken(id, hasExp, refresh, t) ==
    [access |-> id, jwtExp |-> IF hasExp THEN t + TokenTTL ELSE 0,
     refresh |-> refresh, expiry |-> 0, raw |-> TRUE]

\* GetAndStoreToken: err names the step that failed
GetAndStoreToken(serverURL, httpOK, authOK, pollOK, hasExp, hasRefresh, dir, f, id, t) ==
    LET cfg == createConfig(serverURL, httpOK) IN
    IF cfg.err THEN [err |-> "clientid", file |-> f, flows |-> 0, issued |-> 0]
    ELSE IF ~authOK THEN [err |-> "deviceauth", file |-> f, flows |-> 1, issued |-> 0]
    ELSE IF ~pollOK THEN [err |-> "devicetoken", file |-> f, flows |-> 1, issued |-> 0]
    ELSE LET token == addTokenExpiry(IssuedToken(id, hasExp, IF hasRefresh THEN id ELSE 0, t))
             w     == writeTokenToFile(dir, f, token)
         IN  IF w.err THEN [err |-> "write", file |-> w.file, flows |-> 1, issued |-> 1]
             ELSE [err |-> "none", file |-> w.file, flows |-> 1, issued |-> 1]

\* oauth2.Token.Valid as the reusing token source applies it
Valid(t, time) == t.access # 0 /\ (t.expiry = 0 \/ time < t.expiry)

\* o.ts.Token(): the cached token while valid, else a refresh
TokenSourceToken(t, time, refreshOK, hasExp, rotate, id) ==
    IF Valid(t, time) THEN [err |-> FALSE, tok |-> t, issued |-> 0]
    ELSE IF t.refresh = 0 THEN [err |-> TRUE, tok |-> t, issued |-> 0]
    ELSE IF ~refreshOK THEN [err |-> TRUE, tok |-> t, issued |-> 0]
    ELSE [err |-> FALSE, issued |-> 1,
          tok |-> IssuedToken(id, hasExp, IF rotate THEN id ELSE t.refresh, time)]

\* -------------------------------------------------------------- NPSProvider
\* Configure: the endpoint it validates and dials
ResolveEndpoint(cfgEp, envNps) ==
    IF envNps # "" THEN envNps ELSE cfgEp

\* Configure: the transport credentials it picks
TransportFor(cfgEp) ==
    IF cfgEp = Localhost THEN "insecure" ELSE "tls"

\* grpc.NewClient refuses credentials that require transport security over
\* insecure transport credentials
DialErr(transport, c) ==
    transport = "insecure" /\ RequireTransportSecurity(c)

\* Resources: the resource types the provider registers
Resources == {"nps_workshop_apikey", "nps_workshop_file_access_rule",
              "nps_workshop_rule", "nps_workshop_tag"}

NoClient == [set |-> FALSE, endpoint |-> "", transport |-> ""]
NoMeta   == [kind |-> "none", key |-> "", access |-> 0, got |-> FALSE, tok |-> NoToken]

\* -------------------------------------------------------- rule validation
\* a Terraform string: null, unknown, or a known value
Null          == [state |-> "null", v |-> ""]
Unknown       == [state |-> "unknown", v |-> ""]
Known(str)    == [state |-> "known", v |-> str]
ValueString(x) == IF x.state = "known" THEN x.v ELSE ""

ErrBlockReason == "Block reason is only valid for BLOCKLIST rules"
ErrCEL         == "CEL expression is required"

\* ConfigValidators that accepts a block reason for BLOCKLIST only
ConfigValidators_blocklistOnly(policy, celExpr, blockReason) ==
    (IF ValueString(blockReason) # "" /\ ValueString(policy) # "BLOCKLIST"
     THEN {ErrBlockReason} ELSE {})
    \cup
    (IF ValueString(policy) = "CEL" /\ ValueString(celExpr) = ""
     THEN {ErrCEL} ELSE {})

\* ConfigValidators that wants a CEL expression whatever the policy
ConfigValidators_celAlways(policy, celExpr, blockReason) ==
    (IF ValueString(blockReason) # "" /\ ValueString(policy) # "BLOCKLIST"
        /\ ValueString(policy) # "SILENT_BLOCKLIST"
     THEN {ErrBlockReason} ELSE {})
    \cup
    (IF ValueString(celExpr) = "" THEN {ErrCEL} ELSE {})

\* RuleResource.ConfigValidators: the diagnostics the validator adds
ConfigValidators(policy, celExpr, blockReason) ==
    (IF ValueString(blockReason) # "" /\ ValueString(policy) # "BLOCKLIST"
        /\ ValueString(policy) # "SILENT_BLOCKLIST"
     THEN {ErrBlockReason} ELSE {})
    \cup
    (IF ValueString(policy) = "CEL" /\ ValueString(celExpr) = ""
     THEN {ErrCEL} ELSE {})

\* ------------------------------------------------------------------ inputs
Policies     == {Null, Unknown, Known("ALLOWLIST"), Known("BLOCKLIST"),
                 Known("SILENT_BLOCKLIST"), Known("CEL")}
CelExprs     == {Null, Unknown, Known(""), Known("args == ['say']")}
BlockReasons == {Null, Unknown, Known(""), Known("BLOCK_REASON_MALWARE")}

\* what one invocation of the binary is started with; Terraform hands no
\* provider configuration to a -login invocation
LoginInputs ==
    [loginServer : {Localhost, Prod}, cfgEndpoint : {""}, cfgApiKey : {""},
     envApiKey : {"", EnvKey}, envNpsEndpoint : {""}, envWorkshopEndpoint : {""}]
ServeInputs ==
    [loginServer : {""}, cfgEndpoint : {"", Localhost, Prod}, cfgApiKey : {"", CfgKey},
     envApiKey : {"", EnvKey}, envNpsEndpoint : {"", Localhost, Prod},
     envWorkshopEndpoint : {"", Prod}]
Inputs == LoginInputs \cup ServeInputs

RuleIdle ==
    /\ rpc = "idle" /\ rPolicy = Null /\ rCelExpr = Null /\ rBlockReason = Null
    /\ rDiags = {}

CrudIdle ==
    /\ kind = "none" /\ config = <<>> /\ tfstate = <<>> /\ remote = {}
    /\ nextRuleId = 0 /\ op = "none" /\ listed = "notcalled" /\ cdiags = {}
    /\ sent = <<>> /\ request = <<>> /\ priorState = <<>> /\ priorRemote = {}
    /\ phase = "off" /\ replaced = FALSE /\ made = {} /\ removed = {}
    /\ anyError = FALSE

StartRun(in, file) ==
    /\ loginServer = in.loginServer /\ cfgEndpoint = in.cfgEndpoint
    /\ cfgApiKey = in.cfgApiKey /\ envApiKey = in.envApiKey
    /\ envNpsEndpoint = in.envNpsEndpoint
    /\ envWorkshopEndpoint = in.envWorkshopEndpoint
    /\ loginCalls = 0 /\ loginErr = "none" /\ served = FALSE
    /\ configured = FALSE /\ diags = {} /\ authErr = "notcalled"
    /\ fetch = "notcalled" /\ registered = {}
    /\ creds = NilCreds /\ client = NoClient /\ lastMeta = NoMeta
    /\ fileAtStart = file /\ deviceFlows = 0

Init ==
    /\ pc = "main" /\ runs = 1 /\ now = 1 /\ nextId = 1
    /\ configDir \in BOOLEAN
    /\ tokenFile \in (IF configDir THEN {AbsentFile, GarbageFile, EmptyJSON, OldFile}
                                   ELSE {AbsentFile})
    /\ prevLoginOK = FALSE
    /\ \E in \in Inputs : StartRun(in, tokenFile)
    /\ RuleIdle
    /\ CrudIdle

\* ------------------------------------------------------------------- main
\* main without the return after a successful login
AfterLogin_fallThrough(err) == IF err = "none" THEN "serve" ELSE "exited"

\* where main goes after GetAndStoreToken: log.Fatal on an error, return else
AfterLogin(err) == "exited"

\* main: flag.Parse and the test of the -login flag
MainFlags ==
    /\ pc = "main"
    /\ pc' = IF loginServer # "" THEN "login" ELSE "serve"
    /\ UNCHANGED <<runs, loginServer, cfgEndpoint, cfgApiKey, envApiKey,
                   envNpsEndpoint, envWorkshopEndpoint, configDir, tokenFile, now,
                   nextId, loginCalls, loginErr, served, configured, diags,
                   authErr, fetch, registered, creds, client, lastMeta,
                   fileAtStart, prevLoginOK, deviceFlows, ruleVars, crudVars>>

\* main, -login given: GetAndStoreToken, then leave
MainLogin ==
    /\ pc = "login"
    /\ \E httpOK, authOK, pollOK, hasExp, hasRefresh \in BOOLEAN :
         LET r == GetAndStoreToken(loginServer, httpOK, authOK, pollOK, hasExp,
                                   hasRefresh, configDir, tokenFile, nextId, now)
         IN  /\ r.issued = 1 => nextId <= MaxTokens
             /\ tokenFile' = r.file
             /\ loginErr' = r.err
             /\ deviceFlows' = deviceFlows + r.flows
             /\ nextId' = nextId + r.issued
    /\ loginCalls' = loginCalls + 1
    /\ pc' = AfterLogin(loginErr')
    /\ UNCHANGED <<runs, loginServer, cfgEndpoint, cfgApiKey, envApiKey,
                   envNpsEndpoint, envWorkshopEndpoint, configDir, now, served,
                   configured, diags, authErr, fetch, registered, creds, client,
                   lastMeta, fileAtStart, prevLoginOK, ruleVars, crudVars>>

\* main, no -login: providerserver.Serve; the host asks for the resources
MainServe ==
    /\ pc = "serve"
    /\ pc' = "serving" /\ served' = TRUE
    /\ registered' = Resources
    /\ UNCHANGED <<runs, loginServer, cfgEndpoint, cfgApiKey, envApiKey,
                   envNpsEndpoint, envWorkshopEndpoint, configDir, tokenFile, now,
                   nextId, loginCalls, loginErr, configured, diags, authErr,
                   fetch, creds, client, lastMeta, fileAtStart, prevLoginOK,
                   deviceFlows, ruleVars, crudVars>>

\* NPSProvider.Configure
Configure ==
    /\ pc = "serving" /\ ~configured
    /\ configured' = TRUE
    /\ LET endpoint == ResolveEndpoint(cfgEndpoint, envNpsEndpoint) IN
       IF endpoint = ""
       THEN /\ diags' = {"configuration: endpoint must be set"}
            /\ UNCHANGED <<authErr, fetch, creds, client>>
       ELSE \E httpOK \in BOOLEAN :
            LET a == APIKeyOrToken(envApiKey, cfgApiKey, endpoint, httpOK,
                                   configDir, tokenFile)
                transport == TransportFor(cfgEndpoint)
            IN  /\ authErr' = a.err
                /\ fetch' = IF ~a.fetched THEN "notcalled"
                             ELSE IF httpOK THEN "ok" ELSE "failed"
                /\ creds' = a.creds
                /\ IF a.err # "none"
                   THEN diags' = {"authentication"} /\ client' = NoClient
                   ELSE IF DialErr(transport, a.creds)
                   THEN diags' = {"configuration: failed to connect"} /\ client' = NoClient
                   ELSE /\ diags' = {}
                        /\ client' = [set |-> TRUE, endpoint |-> endpoint,
                                      transport |-> transport]
    /\ UNCHANGED <<pc, runs, loginServer, cfgEndpoint, cfgApiKey, envApiKey,
                   envNpsEndpoint, envWorkshopEndpoint, configDir, tokenFile, now,
                   nextId, loginCalls, loginErr, served, registered, lastMeta,
                   fileAtStart, prevLoginOK, deviceFlows, ruleVars, crudVars>>

\* an RPC of a resource: gRPC asks the credentials for the request metadata
GetRequestMetadata ==
    /\ pc = "serving" /\ client.set
    /\ IF creds.kind = "apikey"
       THEN /\ lastMeta' = [kind |-> "ok", key |-> creds.key, access |-> 0,
                            got |-> FALSE, tok |-> NoToken]
            /\ UNCHANGED <<tokenFile, creds, nextId>>
       ELSE \E refreshOK, hasExp, rotate \in BOOLEAN :
            LET r == TokenSourceToken(creds.tok, now, refreshOK, hasExp, rotate, nextId) IN
            /\ r.issued = 1 => nextId <= MaxTokens
            /\ nextId' = nextId + r.issued
            /\ IF r.err
               THEN /\ tokenFile' = deleteTokenFromFile(configDir, tokenFile).file
                    /\ lastMeta' = [kind |-> "err", key |-> "", access |-> 0,
                                    got |-> FALSE, tok |-> NoToken]
                    /\ UNCHANGED creds
               ELSE LET token == addTokenExpiry(r.tok) IN
                    /\ creds' = [creds EXCEPT !.tok = token]
                    /\ tokenFile' = writeTokenToFile(configDir, tokenFile, token).file
                    /\ lastMeta' =
                         [kind |-> IF ~creds.insecure /\ client.transport # "tls"
                                   THEN "err" ELSE "ok",
                          key |-> "", access |-> token.access, got |-> TRUE,
                          tok |-> token]
    /\ UNCHANGED <<pc, runs, loginServer, cfgEndpoint, cfgApiKey, envApiKey,
                   envNpsEndpoint, envWorkshopEndpoint, configDir, now, loginCalls,
                   loginErr, served, configured, diags, authErr, fetch,
                   registered, client, fileAtStart, prevLoginOK, deviceFlows,
                   ruleVars, crudVars>>

\* time passes
Tick ==
    /\ pc \in {"serving", "exited"} /\ now < MaxTime
    /\ now' = now + 1
    /\ UNCHANGED <<pc, runs, loginServer, cfgEndpoint, cfgApiKey, envApiKey,
                   envNpsEndpoint, envWorkshopEndpoint, configDir, tokenFile,
                   nextId, loginCalls, loginErr, served, configured, diags,
                   authErr, fetch, registered, creds, client, lastMeta,
                   fileAtStart, prevLoginOK, deviceFlows, ruleVars, crudVars>>

\* the host stops the plugin
Exit ==
    /\ pc = "serving"
    /\ pc' = "exited"
    /\ UNCHANGED <<runs, loginServer, cfgEndpoint, cfgApiKey, envApiKey,
                   envNpsEndpoint, envWorkshopEndpoint, configDir, tokenFile, now,
                   nextId, loginCalls, loginErr, served, configured, diags,
                   authErr, fetch, registered, creds, client, lastMeta,
                   fileAtStart, prevLoginOK, deviceFlows, ruleVars, crudVars>>

\* the binary is started again
Invoke ==
    /\ pc = "exited" /\ runs < MaxRuns
    /\ pc' = "main" /\ runs' = runs + 1
    /\ prevLoginOK' = (loginCalls > 0 /\ loginErr = "none")
    /\ \E in \in Inputs :
         /\ loginServer' = in.loginServer /\ cfgEndpoint' = in.cfgEndpoint
         /\ cfgApiKey' = in.cfgApiKey /\ envApiKey' = in.envApiKey
         /\ envNpsEndpoint' = in.envNpsEndpoint
         /\ envWorkshopEndpoint' = in.envWorkshopEndpoint
    /\ loginCalls' = 0 /\ loginErr' = "none" /\ served' = FALSE
    /\ configured' = FALSE /\ diags' = {} /\ authErr' = "notcalled"
    /\ fetch' = "notcalled" /\ registered' = {}
    /\ creds' = NilCreds /\ client' = NoClient /\ lastMeta' = NoMeta
    /\ fileAtStart' = tokenFile /\ deviceFlows' = 0
    /\ UNCHANGED <<configDir, tokenFile, now, nextId, ruleVars, crudVars>>

Next ==
    \/ MainFlags
    \/ MainLogin
    \/ MainServe
    \/ Configure
    \/ GetRequestMetadata
    \/ Tick
    \/ Exit
    \/ Invoke

Spec == Init /\ [][Next]_vars

\* ------------------------------------------- the rule validation on its own
AuthIdle ==
    /\ pc = "off" /\ runs = 0 /\ now = 0 /\ nextId = 0
    /\ configDir = FALSE /\ tokenFile = AbsentFile /\ prevLoginOK = FALSE
    /\ StartRun([loginServer |-> "", cfgEndpoint |-> "", cfgApiKey |-> "",
                 envApiKey |-> "", envNpsEndpoint |-> "",
                 envWorkshopEndpoint |-> ""], AbsentFile)

RuleInit ==
    /\ AuthIdle
    /\ CrudIdle
    /\ rpc = "input"
    /\ rPolicy \in Policies /\ rCelExpr \in CelExprs /\ rBlockReason \in BlockReasons
    /\ rDiags = {}

\* the framework runs the resource's config validator on a configuration
ValidateConfig ==
    /\ rpc = "input"
    /\ rpc' = "validated"
    /\ rDiags' = ConfigValidators(rPolicy, rCelExpr, rBlockReason)
    /\ UNCHANGED <<rPolicy, rCelExpr, rBlockReason, authVars, crudVars>>

RuleNext == ValidateConfig

RuleSpec == RuleInit /\ [][RuleNext]_vars

\* ================================================== resources and service
\* The resource handlers and the Workshop service they call.  A Terraform
\* string is Null or Known(s) as above; an id of 0 stands for the null or
\* unknown id, whose ValueString()/ValueInt64() is the zero value.
MaxIds == 3   \* IDs the Workshop service assigns in one behaviour

\* the resource types the repository defines handlers for; Resources above
\* hands four of them to the host
Kinds == {"nps_workshop_rule", "nps_workshop_file_access_rule",
          "nps_workshop_package_rule", "nps_workshop_tag", "nps_workshop_apikey"}
\* the resource types whose computed id carries RequiresReplace
ReplaceKinds == {"nps_workshop_rule", "nps_workshop_file_access_rule",
                 "nps_workshop_package_rule"}

NullBool      == [state |-> "null", v |-> FALSE]
KnownBool(b)  == [state |-> "known", v |-> b]
ValueBool(x)  == IF x.state = "known" THEN x.v ELSE FALSE
NullList      == [state |-> "null", v |-> <<>>]
KnownList(l)  == [state |-> "known", v |-> l]
Elements(x)   == IF x.state = "known" THEN x.v ELSE <<>>
NullInt       == [state |-> "null", v |-> 0]
KnownInt(n)   == [state |-> "known", v |-> n]
ValueInt64(x) == IF x.state = "known" THEN x.v ELSE 0

ClientError == "Client Error"

\* what a handler hands back: the state it leaves, the service afterwards,
\* its diagnostics, the RPCs it sent and the object it put in a create request
Result(st, rem, d, rpcs, req) ==
    [state |-> st, remote |-> rem, diags |-> d, sent |-> rpcs, request |-> req]

\* a Read that takes a failed list RPC for an empty answer
ReadOutcome_errorIsNone(ok, page) ==
    IF ~ok \/ page = <<>> THEN "none" ELSE "found"

\* the three ways every Read goes on after its list RPC
ReadOutcome(ok, page) ==
    IF ~ok THEN "error" ELSE IF page = <<>> THEN "none" ELSE "found"

\* one page of size 1 out of the objects a filter matches
Page(matches) == IF matches = {} THEN {<<>>} ELSE {<<o>> : o \in matches}

\* ------------------------------------------------------ nps_workshop_rule
RuleTypeNames == {"BINARY", "CERTIFICATE", "SIGNINGID", "TEAMID", "CDHASH"}
PolicyNames   == {"ALLOWLIST", "BLOCKLIST", "SILENT_BLOCKLIST", "CEL"}
\* syncpb.RuleType_value[s] and .String() back: an unlisted name is value 0
RuleType_value(s) == IF s \in RuleTypeNames THEN s ELSE "RULETYPE_UNKNOWN"
Policy_value(s)   == IF s \in PolicyNames THEN s ELSE "POLICY_UNKNOWN"
BlockReasonUnspecified == "BLOCK_REASON_UNSPECIFIED"

\* the rule of one configuration as the service holds it when every
\* configured attribute is stored
RuleOf(c) ==
    [rule_id |-> 0,
     identifier |-> ValueString(c.identifier),
     rule_type |-> RuleType_value(ValueString(c.rule_type)),
     policy |-> Policy_value(ValueString(c.policy)),
     block_reason |-> IF ValueString(c.block_reason) = ""
                      THEN BlockReasonUnspecified ELSE ValueString(c.block_reason),
     tag |-> ValueString(c.tag),
     comment |-> ValueString(c.comment),
     custom_msg |-> ValueString(c.custom_msg),
     custom_url |-> ValueString(c.custom_url),
     cel_expr |-> ValueString(c.cel_expr)]

\* apipb.Rule_builder in Create: the request's rule
Rule_builder(data) ==
    [rule_id |-> 0,
     identifier |-> ValueString(data.identifier),
     rule_type |-> RuleType_value(ValueString(data.rule_type)),
     policy |-> Policy_value(ValueString(data.policy)),
     block_reason |-> BlockReasonUnspecified,
     tag |-> ValueString(data.tag),
     comment |-> ValueString(data.comment),
     custom_msg |-> ValueString(data.custom_msg),
     custom_url |-> ValueString(data.custom_url),
     cel_expr |-> ValueString(data.cel_expr)]

SameTriplet(a, b) ==
    a.identifier = b.identifier /\ a.rule_type = b.rule_type /\ a.tag = b.tag

\* the service's CreateRule is an upsert on the triplet and assigns a new ID
CreateRule(rem, rule, id) ==
    {r \in rem : ~SameTriplet(r, rule)} \cup {[rule EXCEPT !.rule_id = id]}

\* a filter that asks for the rule by its ID alone
ListRules_byIdOnly(rem, id, identifier, ruleType, tag) ==
    {r \in rem : r.rule_id = id}

\* the rules the filter of Read matches
ListRules(rem, id, identifier, ruleType, tag) ==
    {r \in rem : \/ r.rule_id = id
                 \/ (r.identifier = identifier /\ r.rule_type = ruleType /\ r.tag = tag)}

DeleteRule(rem, id) == {r \in rem : r.rule_id # id}

RuleResource_Create(data, rem, ok, id) ==
    LET rule == Rule_builder(data) IN
    IF ~ok THEN Result(<<>>, rem, {ClientError}, <<"CreateRule">>, <<rule>>)
    ELSE Result(<<[data EXCEPT !.id = id]>>, CreateRule(rem, rule, id), {},
                <<"CreateRule">>, <<rule>>)

RuleFilter(data, rem) ==
    ListRules(rem, data.id, ValueString(data.identifier),
              ValueString(data.rule_type), ValueString(data.tag))

\* page is the answer of ListRules to the filter, cut to PageSize 1
RuleResource_Read(data, rem, ok, page) ==
    IF ReadOutcome(ok, page) = "error"
    THEN Result(<<data>>, rem, {ClientError}, <<"ListRules">>, <<>>)
    ELSE IF ReadOutcome(ok, page) = "none"
    THEN Result(<<>>, rem, {}, <<"ListRules">>, <<>>)
    ELSE LET rule == page[1] IN
         Result(<<[id |-> rule.rule_id,
                   identifier |-> Known(rule.identifier),
                   rule_type |-> Known(rule.rule_type),
                   policy |-> Known(rule.policy),
                   tag |-> Known(rule.tag),
                   block_reason |-> IF rule.block_reason # BlockReasonUnspecified
                                    THEN Known(rule.block_reason) ELSE data.block_reason,
                   comment |-> IF rule.comment # "" THEN Known(rule.comment)
                               ELSE data.comment,
                   custom_msg |-> IF rule.custom_msg # "" THEN Known(rule.custom_msg)
                                  ELSE data.custom_msg,
                   custom_url |-> IF rule.custom_url # "" THEN Known(rule.custom_url)
                                  ELSE data.custom_url,
                   cel_expr |-> IF rule.cel_expr # "" THEN Known(rule.cel_expr)
                                ELSE data.cel_expr]>>,
                rem, {}, <<"ListRules">>, <<>>)

\* Update that stores the plan, as the tag's Update does
RuleResource_Update_storesPlan(plan, prior, rem) ==
    Result(<<plan>>, rem, {}, <<>>, <<>>)

\* the response of Update starts from the prior state
RuleResource_Update(plan, prior, rem) ==
    Result(<<prior>>, rem, {ClientError}, <<>>, <<>>)

RuleResource_Delete(data, rem, ok) ==
    IF ~ok THEN Result(<<data>>, rem, {ClientError}, <<"DeleteRule">>, <<>>)
    ELSE Result(<<>>, DeleteRule(rem, data.id), {}, <<"DeleteRule">>, <<>>)

\* ------------------------------------------ nps_workshop_file_access_rule
\* the switch of Create and the enum's String() of Read
FileAccessRuleType(s) ==
    CASE s = "PathsWithAllowedProcesses" -> "FILE_ACCESS_RULE_TYPE_PATHS_WITH_ALLOWED_PROCESSES"
      [] s = "PathsWithDeniedProcesses" -> "FILE_ACCESS_RULE_TYPE_PATHS_WITH_DENIED_PROCESSES"
      [] s = "ProcessesWithAllowedPaths" -> "FILE_ACCESS_RULE_TYPE_PROCESSES_WITH_ALLOWED_PATHS"
      [] s = "ProcessesWithDeniedPaths" -> "FILE_ACCESS_RULE_TYPE_PROCESSES_WITH_DENIED_PATHS"
      [] OTHER -> "FILE_ACCESS_RULE_TYPE_UNSPECIFIED"

\* apipb.FileAccessRule_builder in Create; the two silent-mode flags go the
\* way of the two flags kept here, the five other lists the way of these two
FileAccessRule_builder(data) ==
    [rule_id |-> 0,
     tag |-> ValueString(data.tag),
     name |-> ValueString(data.name),
     allow_read_access |-> ValueBool(data.allow_read_access),
     block_violations |-> ValueBool(data.block_violations),
     rule_type |-> FileAccessRuleType(ValueString(data.rule_type)),
     block_message |-> ValueString(data.block_message),
     event_detail_url |-> ValueString(data.event_detail_url),
     event_detail_text |-> ValueString(data.event_detail_text),
     path_literals |-> Elements(data.path_literals),
     process_team_ids |-> Elements(data.process_team_ids)]

SameNameTag(a, b) == a.name = b.name /\ a.tag = b.tag

CreateFileAccessRule(rem, rule, id) ==
    {r \in rem : ~SameNameTag(r, rule)} \cup {[rule EXCEPT !.rule_id = id]}

ListFileAccessRules(rem, id, name, tag) ==
    {r \in rem : r.rule_id = id \/ (r.name = name /\ r.tag = tag)}

DeleteFileAccessRule(rem, id) == {r \in rem : r.rule_id # id}

FileAccessRuleResource_Create(data, rem, ok, id) ==
    LET rule == FileAccessRule_builder(data) IN
    IF ~ok THEN Result(<<>>, rem, {ClientError}, <<"CreateFileAccessRule">>,
                       <<rule>>)
    ELSE Result(<<[data EXCEPT !.id = id]>>, CreateFileAccessRule(rem, rule, id), {},
                <<"CreateFileAccessRule">>, <<rule>>)

FileAccessRuleFilter(data, rem) ==
    ListFileAccessRules(rem, data.id, ValueString(data.name), ValueString(data.tag))

FileAccessRuleResource_Read(data, rem, ok, page) ==
    IF ReadOutcome(ok, page) = "error"
    THEN Result(<<data>>, rem, {ClientError}, <<"ListFileAccessRules">>, <<>>)
    ELSE IF ReadOutcome(ok, page) = "none"
    THEN Result(<<>>, rem, {}, <<"ListFileAccessRules">>, <<>>)
    ELSE LET rule == page[1] IN
         Result(<<[id |-> rule.rule_id,
                   tag |-> Known(rule.tag),
                   name |-> Known(rule.name),
                   allow_read_access |-> KnownBool(rule.allow_read_access),
                   block_violations |-> KnownBool(rule.block_violations),
                   rule_type |-> Known(rule.rule_type),
                   block_message |-> IF rule.block_message # ""
                                     THEN Known(rule.block_message) ELSE data.block_message,
                   event_detail_url |-> IF rule.event_detail_url # ""
                                        THEN Known(rule.event_detail_url)
                                        ELSE data.event_detail_url,
                   event_detail_text |-> IF rule.event_detail_text # ""
                                         THEN Known(rule.event_detail_text)
                                         ELSE data.event_detail_text,
                   path_literals |-> IF Len(rule.path_literals) > 0
                                     THEN KnownList(rule.path_literals)
                                     ELSE data.path_literals,
                   process_team_ids |-> IF Len(rule.process_team_ids) > 0
                                        THEN KnownList(rule.process_team_ids)
                                        ELSE data.process_team_ids]>>,
                rem, {}, <<"ListFileAccessRules">>, <<>>)

FileAccessRuleResource_Update(plan, prior, rem) ==
    Result(<<prior>>, rem, {ClientError}, <<>>, <<>>)

FileAccessRuleResource_Delete(data, rem, ok) ==
    IF ~ok THEN Result(<<data>>, rem, {ClientError}, <<"DeleteFileAccessRule">>,
                       <<>>)
    ELSE Result(<<>>, DeleteFileAccessRule(rem, data.id), {},
                <<"DeleteFileAccessRule">>, <<>>)

\* ---------------------------------------------- nps_workshop_package_rule
PackageSourceNames == {"PACKAGE_SOURCE_NPM", "PACKAGE_SOURCE_PYPI"}
PackageSource_value(s) ==
    IF s \in PackageSourceNames THEN s ELSE "PACKAGE_SOURCE_UNSPECIFIED"

\* time.Parse(time.RFC3339, s): the instant, 0 for a string that is no date
DateUTC    == "2024-01-01T00:00:00Z"
DateOffset == "2024-01-01T01:00:00+01:00"
DateBad    == "yesterday"
ParseRFC3339(s) == IF s \in {DateUTC, DateOffset} THEN 1 ELSE 0
\* AsTime().Format(time.RFC3339): the instant in UTC
FormatRFC3339(t) == IF t = 1 THEN DateUTC ELSE "0001-01-01T00:00:00Z"
IsSet(x) == x.state = "known"

PackageRule_builder(data) ==
    [rule_id |-> 0,
     tag |-> ValueString(data.tag),
     source |-> PackageSource_value(ValueString(data.source)),
     name |-> ValueString(data.name),
     policy |-> Policy_value(ValueString(data.policy)),
     rule_type |-> RuleType_value(ValueString(data.rule_type)),
     version_regexp |-> ValueString(data.version_regexp),
     min_date |-> IF IsSet(data.min_date) THEN ParseRFC3339(ValueString(data.min_date)) ELSE 0,
     max_date |-> IF IsSet(data.max_date) THEN ParseRFC3339(ValueString(data.max_date)) ELSE 0]

SameNameSourceTag(a, b) == a.name = b.name /\ a.source = b.source /\ a.tag = b.tag

CreatePackageRule(rem, rule, id) ==
    {r \in rem : ~SameNameSourceTag(r, rule)} \cup {[rule EXCEPT !.rule_id = id]}

ListPackageRules(rem, id, name, source, tag) ==
    {r \in rem : r.rule_id = id \/ (r.name = name /\ r.source = source /\ r.tag = tag)}

DeletePackageRule(rem, id) == {r \in rem : r.rule_id # id}

PackageRuleResource_Create(data, rem, ok, id) ==
    LET rule == PackageRule_builder(data) IN
    IF IsSet(data.min_date) /\ ParseRFC3339(ValueString(data.min_date)) = 0
    THEN Result(<<>>, rem, {"Invalid min_date"}, <<>>, <<>>)
    ELSE IF IsSet(data.max_date) /\ ParseRFC3339(ValueString(data.max_date)) = 0
    THEN Result(<<>>, rem, {"Invalid max_date"}, <<>>, <<>>)
    ELSE IF ~ok
    THEN Result(<<>>, rem, {ClientError}, <<"CreatePackageRule">>, <<rule>>)
    ELSE Result(<<[data EXCEPT !.id = id]>>, CreatePackageRule(rem, rule, id), {},
                <<"CreatePackageRule">>, <<rule>>)

PackageRuleFilter(data, rem) ==
    ListPackageRules(rem, data.id, ValueString(data.name), ValueString(data.source),
                     ValueString(data.tag))

PackageRuleResource_Read(data, rem, ok, page) ==
    IF ReadOutcome(ok, page) = "error"
    THEN Result(<<data>>, rem, {ClientError}, <<"ListPackageRules">>, <<>>)
    ELSE IF ReadOutcome(ok, page) = "none"
    THEN Result(<<>>, rem, {}, <<"ListPackageRules">>, <<>>)
    ELSE LET rule == page[1] IN
         Result(<<[id |-> rule.rule_id,
                   tag |-> Known(rule.tag),
                   source |-> Known(rule.source),
                   name |-> Known(rule.name),
                   policy |-> Known(rule.policy),
                   rule_type |-> Known(rule.rule_type),
                   version_regexp |-> IF rule.version_regexp # ""
                                      THEN Known(rule.version_regexp)
                                      ELSE data.version_regexp,
                   min_date |-> IF rule.min_date # 0
                                THEN Known(FormatRFC3339(rule.min_date)) ELSE data.min_date,
                   max_date |-> IF rule.max_date # 0
                                THEN Known(FormatRFC3339(rule.max_date)) ELSE data.max_date]>>,
                rem, {}, <<"ListPackageRules">>, <<>>)

PackageRuleResource_Update(plan, prior, rem) ==
    Result(<<prior>>, rem, {ClientError}, <<>>, <<>>)

PackageRuleResource_Delete(data, rem, ok) ==
    IF ~ok THEN Result(<<data>>, rem, {ClientError}, <<"DeletePackageRule">>,
                       <<>>)
    ELSE Result(<<>>, DeletePackageRule(rem, data.id), {}, <<"DeletePackageRule">>,
                <<>>)

\* ------------------------------------------------------- nps_workshop_tag
CreateTag(rem, name) == rem \cup {[name |-> name]}
ListTags(rem, name)  == {t \in rem : t.name = name}
DeleteTag(rem, name) == {t \in rem : t.name # name}

TagResource_Create(data, rem, ok, id) ==
    IF ~ok THEN Result(<<>>, rem, {ClientError}, <<"CreateTag">>, <<[name |-> ValueString(data.name)]>>)
    ELSE Result(<<data>>, CreateTag(rem, ValueString(data.name)), {}, <<"CreateTag">>,
                <<[name |-> ValueString(data.name)]>>)

TagFilter(data, rem) == ListTags(rem, ValueString(data.name))

TagResource_Read(data, rem, ok, page) ==
    IF ReadOutcome(ok, page) = "error"
    THEN Result(<<data>>, rem, {ClientError}, <<"ListTags">>, <<>>)
    ELSE IF ReadOutcome(ok, page) = "none"
    THEN Result(<<>>, rem, {}, <<"ListTags">>, <<>>)
    ELSE Result(<<data>>, rem, {}, <<"ListTags">>, <<>>)

\* Update stores the plan and calls nothing
TagResource_Update(plan, prior, rem) ==
    Result(<<plan>>, rem, {}, <<>>, <<>>)

TagResource_Delete(data, rem, ok) ==
    IF ~ok THEN Result(<<data>>, rem, {ClientError}, <<"DeleteTag">>, <<>>)
    ELSE Result(<<>>, DeleteTag(rem, ValueString(data.name)), {}, <<"DeleteTag">>,
                <<>>)

\* ---------------------------------------------------- nps_workshop_apikey
Secret == "secret"
DefaultLifetime == 720   \* 24 * 30 hours

APIKeyRequest(data) ==
    [name |-> ValueString(data.name),
     permissions |-> Elements(data.permissions),
     lifetime |-> IF ValueInt64(data.lifetime) = 0 THEN DefaultLifetime
                  ELSE ValueInt64(data.lifetime)]

CreateAPIKey(rem, key) == {k \in rem : k.name # key.name} \cup {key}
ListAPIKeys(rem, name)  == {k \in rem : k.name = name}
DeleteAPIKey(rem, name) == {k \in rem : k.name # name}

\* id = 0 stands for a response that carries no secret
APIKeyResource_Create(data, rem, ok, id) ==
    LET key == APIKeyRequest(data) IN
    IF ~ok THEN Result(<<>>, rem, {ClientError}, <<"CreateAPIKey">>, <<key>>)
    ELSE IF id = 0
    THEN Result(<<>>, CreateAPIKey(rem, key), {ClientError}, <<"CreateAPIKey">>,
                <<key>>)
    ELSE Result(<<[data EXCEPT !.secret = Known(Secret)]>>, CreateAPIKey(rem, key), {},
                <<"CreateAPIKey">>, <<key>>)

APIKeyFilter(data, rem) == ListAPIKeys(rem, ValueString(data.name))

APIKeyResource_Read(data, rem, ok, page) ==
    IF ReadOutcome(ok, page) = "error"
    THEN Result(<<data>>, rem, {ClientError}, <<"ListAPIKeys">>, <<>>)
    ELSE IF ReadOutcome(ok, page) = "none"
    THEN Result(<<>>, rem, {}, <<"ListAPIKeys">>, <<>>)
    ELSE LET key == page[1] IN
         Result(<<[data EXCEPT !.name = Known(key.name),
                               !.permissions = KnownList(key.permissions)]>>,
                rem, {}, <<"ListAPIKeys">>, <<>>)

\* Update stores the plan and calls nothing
APIKeyResource_Update(plan, prior, rem) ==
    Result(<<plan>>, rem, {}, <<>>, <<>>)

APIKeyResource_Delete(data, rem, ok) ==
    IF ~ok THEN Result(<<data>>, rem, {ClientError}, <<"DeleteAPIKey">>, <<>>)
    ELSE Result(<<>>, DeleteAPIKey(rem, ValueString(data.name)), {}, <<"DeleteAPIKey">>,
                <<>>)

\* ------------------------------------------------------- the five kinds
Create(k, data, rem, ok, id) ==
    CASE k = "nps_workshop_rule" -> RuleResource_Create(data, rem, ok, id)
      [] k = "nps_workshop_file_access_rule" -> FileAccessRuleResource_Create(data, rem, ok, id)
      [] k = "nps_workshop_package_rule" -> PackageRuleResource_Create(data, rem, ok, id)
      [] k = "nps_workshop_tag" -> TagResource_Create(data, rem, ok, id)
      [] k = "nps_workshop_apikey" -> APIKeyResource_Create(data, rem, ok, id)

Filter(k, data, rem) ==
    CASE k = "nps_workshop_rule" -> RuleFilter(data, rem)
      [] k = "nps_workshop_file_access_rule" -> FileAccessRuleFilter(data, rem)
      [] k = "nps_workshop_package_rule" -> PackageRuleFilter(data, rem)
      [] k = "nps_workshop_tag" -> TagFilter(data, rem)
      [] k = "nps_workshop_apikey" -> APIKeyFilter(data, rem)

Read(k, data, rem, ok, page) ==
    CASE k = "nps_workshop_rule" -> RuleResource_Read(data, rem, ok, page)
      [] k = "nps_workshop_file_access_rule" -> FileAccessRuleResource_Read(data, rem, ok, page)
      [] k = "nps_workshop_package_rule" -> PackageRuleResource_Read(data, rem, ok, page)
      [] k = "nps_workshop_tag" -> TagResource_Read(data, rem, ok, page)
      [] k = "nps_workshop_apikey" -> APIKeyResource_Read(data, rem, ok, page)

Update(k, plan, prior, rem) ==
    CASE k = "nps_workshop_rule" -> RuleResource_Update(plan, prior, rem)
      [] k = "nps_workshop_file_access_rule" -> FileAccessRuleResource_Update(plan, prior, rem)
      [] k = "nps_workshop_package_rule" -> PackageRuleResource_Update(plan, prior, rem)
      [] k = "nps_workshop_tag" -> TagResource_Update(plan, prior, rem)
      [] k = "nps_workshop_apikey" -> APIKeyResource_Update(plan, prior, rem)

Delete(k, data, rem, ok) ==
    CASE k = "nps_workshop_rule" -> RuleResource_Delete(data, rem, ok)
      [] k = "nps_workshop_file_access_rule" -> FileAccessRuleResource_Delete(data, rem, ok)
      [] k = "nps_workshop_package_rule" -> PackageRuleResource_Delete(data, rem, ok)
      [] k = "nps_workshop_tag" -> TagResource_Delete(data, rem, ok)
      [] k = "nps_workshop_apikey" -> APIKeyResource_Delete(data, rem, ok)

\* the service keeps one rule per key
SameKey(k, a, b) ==
    CASE k = "nps_workshop_rule" -> SameTriplet(a, b)
      [] k = "nps_workshop_file_access_rule" -> SameNameTag(a, b)
      [] k = "nps_workshop_package_rule" -> SameNameSourceTag(a, b)

\* what names an object on the service: the rule ID, or the name
RemoteKey(k, o) == IF k \in ReplaceKinds THEN o.rule_id ELSE o.name
StateKey(k, data) == IF k \in ReplaceKinds THEN data.id ELSE ValueString(data.name)

\* --------------------------------------------------------- configurations
\* A configuration carries its computed attribute as the null it is in the
\* configuration: id = 0, secret = Unknown.
RuleConfig(policy, blockReason, tag, comment, customMsg, customUrl, celExpr) ==
    [id |-> 0, identifier |-> Known("platform:com.apple.yes"),
     rule_type |-> Known("SIGNINGID"), policy |-> policy,
     block_reason |-> blockReason, tag |-> tag, comment |-> comment,
     custom_msg |-> customMsg, custom_url |-> customUrl, cel_expr |-> celExpr]

\* the steps of TestAccWorkshopRule, and rules with the optional attributes
RuleConfigs ==
    {c \in {RuleConfig(Known("BLOCKLIST"), Null, Known("global"), Known("block yes"),
                       Null, Null, Null),
            RuleConfig(Known("BLOCKLIST"), Null, Known("global"), Null, Null, Null, Null),
            RuleConfig(Known("BLOCKLIST"), Null, Known("tag123"), Known(""),
                       Null, Null, Null),
            RuleConfig(Known("BLOCKLIST"), Known("BLOCK_REASON_MALWARE"), Known("global"),
                       Known("block yes"), Known("msg"), Known("https://example.com"), Null),
            RuleConfig(Known("CEL"), Null, Known("global"), Null, Null, Null,
                       Known("args == ['say']")),
            RuleConfig(Known("CEL"), Null, Known("global"), Null, Null, Null, Null)} :
        ConfigValidators(c.policy, c.cel_expr, c.block_reason) = {}}

FileAccessRuleConfig(tag, blockMessage, url, text, literals, teams) ==
    [id |-> 0, tag |-> tag, name |-> Known("ssh-keys"),
     allow_read_access |-> KnownBool(TRUE), block_violations |-> NullBool,
     rule_type |-> Known("PathsWithAllowedProcesses"),
     block_message |-> blockMessage, event_detail_url |-> url,
     event_detail_text |-> text, path_literals |-> literals,
     process_team_ids |-> teams]

FileAccessRuleConfigs ==
    {FileAccessRuleConfig(Known("global"), Known("no"), Known("https://example.com"),
                          Known("why"), KnownList(<<"/etc/ssh">>), KnownList(<<"TEAM1">>)),
     FileAccessRuleConfig(Known("global"), Null, Null, Null, KnownList(<<"/etc/ssh">>),
                          NullList),
     FileAccessRuleConfig(Known("tag123"), Null, Null, Null, KnownList(<<"/etc/ssh">>),
                          NullList)}

PackageRuleConfig(tag, regexp, minDate, maxDate) ==
    [id |-> 0, tag |-> tag, source |-> Known("PACKAGE_SOURCE_NPM"),
     name |-> Known("express"), policy |-> Known("ALLOWLIST"),
     rule_type |-> Known("SIGNINGID"), version_regexp |-> regexp,
     min_date |-> minDate, max_date |-> maxDate]

PackageRuleConfigs ==
    {PackageRuleConfig(Known("global"), Known("^4"), Known(DateUTC), Null),
     PackageRuleConfig(Known("global"), Null, Null, Null),
     PackageRuleConfig(Known("tag123"), Null, Known(DateOffset), Null),
     PackageRuleConfig(Known("tag123"), Null, Null, Known(DateBad))}

TagConfigs == {[name |-> Known("global")], [name |-> Known("tag123")]}

APIKeyConfig(name, permissions, lifetime) ==
    [name |-> name, permissions |-> permissions, lifetime |-> lifetime, secret |-> Unknown]

APIKeyConfigs ==
    {APIKeyConfig(Known("ci"), KnownList(<<"read:rules">>), NullInt),
     APIKeyConfig(Known("ci"), KnownList(<<"read:rules", "write:rules">>), KnownInt(24)),
     APIKeyConfig(Known("deploy"), KnownList(<<"read:rules">>), NullInt)}

Configs(k) ==
    CASE k = "nps_workshop_rule" -> RuleConfigs
      [] k = "nps_workshop_file_access_rule" -> FileAccessRuleConfigs
      [] k = "nps_workshop_package_rule" -> PackageRuleConfigs
      [] k = "nps_workshop_tag" -> TagConfigs
      [] k = "nps_workshop_apikey" -> APIKeyConfigs

\* the object a configuration describes, every configured attribute stored
Described(k, c) ==
    CASE k = "nps_workshop_rule" -> RuleOf(c)
      [] k = "nps_workshop_file_access_rule" -> FileAccessRule_builder(c)
      [] k = "nps_workshop_package_rule" -> PackageRule_builder(c)
      [] k = "nps_workshop_tag" -> [name |-> ValueString(c.name)]
      [] k = "nps_workshop_apikey" -> APIKeyRequest(c)

\* ------------------------------------------------------------- the host
Computed(k) ==
    IF k \in ReplaceKinds THEN {"id"}
    ELSE IF k = "nps_workshop_apikey" THEN {"secret"} ELSE {}

\* the configuration differs from the state in a configured attribute
Differs(k, c, data) == \E a \in (DOMAIN c) \ Computed(k) : c[a] # data[a]

\* the plan: a computed id is unknown whenever something differs, the secret
\* keeps its state value (UseStateForUnknown)
PlanOf(k, c, st) ==
    IF k = "nps_workshop_apikey" /\ st # <<>>
    THEN [c EXCEPT !.secret = st[1].secret] ELSE c

\* what the host plans for the resource; RequiresReplace on the unknown id
\* turns every change of a rule into a replacement
PlanAction(k, cfg, st) ==
    IF cfg = <<>> THEN (IF st = <<>> THEN "none" ELSE "delete")
    ELSE IF st = <<>> THEN "create"
    ELSE IF ~Differs(k, cfg[1], st[1]) THEN "none"
    ELSE IF k \in ReplaceKinds THEN "replace" ELSE "update"

CrudInit ==
    /\ AuthIdle /\ RuleIdle
    /\ kind \in Kinds
    /\ config \in {<<c>> : c \in Configs(kind)}
    /\ tfstate = <<>> /\ remote = {} /\ nextRuleId = 1
    /\ op = "none" /\ listed = "notcalled" /\ cdiags = {} /\ sent = <<>>
    /\ request = <<>> /\ priorState = <<>> /\ priorRemote = {}
    /\ phase = "idle" /\ replaced = FALSE /\ made = {} /\ removed = {}
    /\ anyError = FALSE

\* what every handler call leaves behind; answer is what the service
\* answered to the list RPC of a Read
Handled(name, res, answer) ==
    /\ op' = name
    /\ tfstate' = res.state /\ remote' = res.remote
    /\ cdiags' = res.diags /\ sent' = res.sent /\ listed' = answer
    /\ request' = res.request
    /\ priorState' = tfstate /\ priorRemote' = remote
    /\ anyError' = (anyError \/ res.diags # {})

\* the user edits the resource's block, or takes it out of the configuration
EditConfig ==
    /\ phase \in {"idle", "refreshed"}
    /\ \E cfg \in ({<<>>} \cup {<<c>> : c \in Configs(kind)}) \ {config} : config' = cfg
    /\ phase' = "idle" /\ op' = "EditConfig"
    /\ UNCHANGED <<kind, tfstate, remote, nextRuleId, listed, cdiags, sent, request,
                   priorState, priorRemote, replaced, made, removed, anyError,
                   authVars, ruleVars>>

\* the host creates the resource: it has no state, or its state was just
\* destroyed for a replacement
HostCreate ==
    /\ PlanAction(kind, config, tfstate) = "create"
    /\ phase \in {"idle", "refreshed", "replacing"}
    /\ nextRuleId <= MaxIds
    /\ \E ok \in BOOLEAN, secretOK \in BOOLEAN :
         LET id  == IF kind = "nps_workshop_apikey" /\ ~secretOK THEN 0 ELSE nextRuleId
             res == Create(kind, PlanOf(kind, config[1], tfstate), remote, ok, id)
         IN /\ (secretOK \/ (kind = "nps_workshop_apikey" /\ ok))
            /\ Handled("Create", res, "notcalled")
            /\ nextRuleId' = IF kind \in ReplaceKinds /\ res.remote # remote
                              THEN nextRuleId + 1 ELSE nextRuleId
            /\ made' = made \cup {RemoteKey(kind, o) : o \in res.remote \ remote}
            /\ replaced' = (phase = "replacing" /\ res.diags = {})
    /\ phase' = "idle"
    /\ UNCHANGED <<kind, config, removed, authVars, ruleVars>>

\* the refresh that opens every plan
HostRead ==
    /\ phase = "idle" /\ tfstate # <<>>
    /\ \E ok \in BOOLEAN, page \in Page(Filter(kind, tfstate[1], remote)) :
         LET res == Read(kind, tfstate[1], remote, ok, page) IN
         /\ Handled("Read", res, IF ~ok THEN "error" ELSE IF page = <<>> THEN "none"
                                  ELSE "found")
         /\ phase' = IF res.diags = {} THEN "refreshed" ELSE "idle"
    /\ UNCHANGED <<kind, config, nextRuleId, replaced, made, removed, authVars, ruleVars>>

\* the host asks for the planned change in place
HostUpdate ==
    /\ phase = "refreshed"
    /\ PlanAction(kind, config, tfstate) \in {"update", "replace"}
    /\ Handled("Update", Update(kind, PlanOf(kind, config[1], tfstate), tfstate[1], remote),
               "notcalled")
    /\ phase' = "idle"
    /\ UNCHANGED <<kind, config, nextRuleId, replaced, made, removed, authVars, ruleVars>>

\* the host destroys the resource: it left the configuration, or it is
\* replaced and HostCreate follows
HostDelete ==
    /\ phase = "refreshed"
    /\ PlanAction(kind, config, tfstate) \in {"delete", "replace"}
    /\ \E ok \in BOOLEAN :
         LET res == Delete(kind, tfstate[1], remote, ok) IN
         /\ Handled("Delete", res, "notcalled")
         /\ removed' = IF res.diags = {} THEN removed \cup {StateKey(kind, tfstate[1])}
                       ELSE removed
         /\ phase' = IF res.diags = {} /\ config # <<>> THEN "replacing" ELSE "idle"
    /\ UNCHANGED <<kind, config, nextRuleId, replaced, made, authVars, ruleVars>>

\* somebody else deletes an object on the service
RemoteDelete ==
    /\ phase = "idle"
    /\ \E o \in remote : remote' = remote \ {o}
    /\ op' = "RemoteDelete"
    /\ UNCHANGED <<kind, config, tfstate, nextRuleId, listed, cdiags, sent, request,
                   priorState, priorRemote, phase, replaced, made, removed, anyError,
                   authVars, ruleVars>>

\* somebody else upserts a rule on the service: the rule of the same key
\* gets a new ID and the attributes of the upsert
RemoteUpsert ==
    /\ phase = "idle" /\ kind \in ReplaceKinds
    /\ nextRuleId <= MaxIds
    /\ \E o \in remote, c \in Configs(kind) :
         LET new == [Described(kind, c) EXCEPT !.rule_id = nextRuleId] IN
         /\ SameKey(kind, new, o)
         /\ remote' = (remote \ {o}) \cup {new}
    /\ nextRuleId' = nextRuleId + 1
    /\ op' = "RemoteUpsert"
    /\ UNCHANGED <<kind, config, tfstate, listed, cdiags, sent, request,
                   priorState, priorRemote, phase, replaced, made, removed, anyError,
                   authVars, ruleVars>>

CrudNext ==
    \/ EditConfig
    \/ HostCreate
    \/ HostRead
    \/ HostUpdate
    \/ HostDelete
    \/ RemoteDelete
    \/ RemoteUpsert

CrudSpec == CrudInit /\ [][CrudNext]_vars

\* ================================================================== claims
\* the token file holds a token apiTokenFromFile accepts
UsableFile(dir, f) == dir /\ f.kind = "json" /\ (f.access # 0 \/ f.refresh # 0)
\* APIKeyOrToken has returned in this invocation
AuthDone == authErr # "notcalled"
\* ... and no RPC has touched the token file or the cached token since
FreshConfigure == AuthDone /\ lastMeta = NoMeta
NoKeys == envApiKey = "" /\ cfgApiKey = ""
\* c are token credentials holding the token of file f
BuiltFrom(c, f) ==
    /\ c.kind = "oauth" /\ f.kind = "json"
    /\ c.tok.access = f.access /\ c.tok.refresh = f.refresh
    /\ c.tok.expiry = f.expiry /\ c.tok.jwtExp = f.jwtExp
AllFiveResources ==
    {"nps_workshop_apikey", "nps_workshop_tag", "nps_workshop_rule",
     "nps_workshop_file_access_rule", "nps_workshop_package_rule"}

C6_OneMode ==
    /\ loginServer # "" => (~served /\ ~configured /\ registered = {})
    /\ loginServer = "" => (loginCalls = 0 /\ deviceFlows = 0)
    /\ ~(served /\ loginCalls > 0)
    /\ pc = "exited" =>
          IF loginServer # "" THEN loginCalls = 1 /\ ~served
                              ELSE served /\ loginCalls = 0

C6_Witness ==
    /\ pc = "exited" /\ loginServer # "" /\ loginCalls = 1 /\ loginErr = "none"
    /\ ~served

\* C7: the resource types registered with the host contain the API key, tag,
\* rule, file access rule and package rule resources.
C7_AllFiveRegistered ==
    served => AllFiveResources \subseteq registered

\* C8: with no endpoint in the provider configuration and WORKSHOP_ENDPOINT
\* set, Configure uses that value as the endpoint and does not fail with the
\* 'must be set' error.
C8_WorkshopEndpoint ==
    (configured /\ cfgEndpoint = "" /\ envWorkshopEndpoint # "")
        => /\ "configuration: endpoint must be set" \notin diags
           /\ client.set => client.endpoint = envWorkshopEndpoint

\* C9: the connection is made without transport security only when the
\* endpoint connected to is localhost:8080; any other endpoint gets TLS.
C9_InsecureOnlyLocalhost ==
    client.set =>
      /\ client.transport = "insecure" => client.endpoint = Localhost
      /\ client.endpoint # Localhost => client.transport = "tls"

\* C10: the rule's config validation rejects every configuration with policy
\* CEL and cel_expr unset or empty, and adds no CEL error when policy is CEL
\* with a non-empty cel_expr or when the policy is another one.
C10_CELRequiresExpr ==
    rpc = "validated" =>
      /\ (rPolicy = Known("CEL") /\ (rCelExpr = Null \/ rCelExpr = Known("")))
            => ErrCEL \in rDiags
      /\ (rPolicy = Known("CEL") /\ rCelExpr.state = "known" /\ rCelExpr.v # "")
            => ErrCEL \notin rDiags
      /\ (rPolicy.state = "known" /\ rPolicy.v # "CEL") => ErrCEL \notin rDiags

C10_Witness ==
    /\ rpc = "validated" /\ rPolicy = Known("CEL") /\ rCelExpr = Null
    /\ rDiags = {ErrCEL}

\* C11 (as claimed): validation adds the block-reason error whenever
\* block_reason is non-empty and policy is not BLOCKLIST, and adds none when
\* block_reason is empty or policy is BLOCKLIST.
C11_Original ==
    rpc = "validated" =>
      /\ (ValueString(rBlockReason) # "" /\ rPolicy # Known("BLOCKLIST"))
            => ErrBlockReason \in rDiags
      /\ (ValueString(rBlockReason) = "" \/ rPolicy = Known("BLOCKLIST"))
            => ErrBlockReason \notin rDiags

\* C11 (amended): validation adds the block-reason error exactly when
\* block_reason is non-empty and policy is neither BLOCKLIST nor
\* SILENT_BLOCKLIST; a non-empty block_reason is accepted for both of these
\* policies, and an empty, unset or unknown block_reason for every policy.
C11_BlockReasonPolicies ==
    rpc = "validated" =>
      (ErrBlockReason \in rDiags
         <=> /\ ValueString(rBlockReason) # ""
             /\ rPolicy # Known("BLOCKLIST")
             /\ rPolicy # Known("SILENT_BLOCKLIST"))

C11_Witness ==
    /\ rpc = "validated" /\ rPolicy = Known("SILENT_BLOCKLIST")
    /\ rBlockReason = Known("BLOCK_REASON_MALWARE")
    /\ ErrBlockReason \notin rDiags

\* C18: apiTokenFromFile returns a token exactly when the token file exists,
\* parses as JSON and holds a non-empty access token or refresh token; in
\* every other case it returns nil, credential resolution goes on as with no
\* stored token (no OAuth credentials, the error advising -login), and the
\* file is left as it was.
C18_TokenIffUsable ==
    /\ apiTokenFromFile(configDir, tokenFile).ok <=> UsableFile(configDir, tokenFile)
    /\ (FreshConfigure /\ NoKeys /\ fetch = "ok") =>
          /\ creds.kind = "oauth" <=> UsableFile(configDir, fileAtStart)
          /\ creds.kind = "oauth" => BuiltFrom(creds, fileAtStart)
          /\ ~UsableFile(configDir, fileAtStart)
                => (creds.kind = "nil" /\ authErr = "notloggedin")
          /\ tokenFile = fileAtStart

C18_Witness ==
    /\ FreshConfigure /\ NoKeys /\ fetch = "ok"
    /\ configDir /\ fileAtStart = GarbageFile /\ tokenFile = GarbageFile
    /\ creds.kind = "nil" /\ authErr = "notloggedin"

\* ------------------------------------------------- claims on the resources
IsRule == kind = "nps_workshop_rule"
\* r holds the identifier, rule_type and tag of the state data
TripletOf(data, r) ==
    /\ r.identifier = ValueString(data.identifier)
    /\ r.rule_type = ValueString(data.rule_type)
    /\ r.tag = ValueString(data.tag)
\* a Read of a rule whose state ID the service no longer holds while it
\* holds a rule of the same triplet, answered by the service
IdChanged ==
    /\ IsRule /\ op = "Read" /\ listed # "error" /\ priorState # <<>>
    /\ \A r \in priorRemote : r.rule_id # priorState[1].id
    /\ \E r \in priorRemote : TripletOf(priorState[1], r)

\* C12: when the service no longer holds a rule with the ID in state but
\* holds a rule with the state's identifier, rule_type and tag, Read keeps
\* the resource in state and puts that rule's current ID in the state id.
C12_ReadFollowsNewId ==
    IdChanged =>
      /\ tfstate # <<>>
      /\ \E r \in remote : TripletOf(priorState[1], r) /\ tfstate[1].id = r.rule_id
      /\ tfstate[1].id # priorState[1].id

C12_Witness ==
    /\ IdChanged /\ tfstate # <<>> /\ priorState[1].id = 1 /\ tfstate[1].id = 2
    /\ \E r \in remote : r.rule_id = 2

\* the state data shows the value the remote object o holds, attribute by
\* attribute; a null attribute shows the empty value
ShowsRule(data, o) ==
    /\ data.id = o.rule_id
    /\ ValueString(data.identifier) = o.identifier
    /\ ValueString(data.rule_type) = o.rule_type
    /\ ValueString(data.policy) = o.policy
    /\ ValueString(data.tag) = o.tag
    /\ ValueString(data.comment) = o.comment
    /\ ValueString(data.custom_msg) = o.custom_msg
    /\ ValueString(data.custom_url) = o.custom_url
    /\ ValueString(data.cel_expr) = o.cel_expr
    /\ (IF ValueString(data.block_reason) = "" THEN BlockReasonUnspecified
        ELSE ValueString(data.block_reason)) = o.block_reason
ShowsFileAccessRule(data, o) ==
    /\ data.id = o.rule_id
    /\ ValueString(data.tag) = o.tag /\ ValueString(data.name) = o.name
    /\ ValueBool(data.allow_read_access) = o.allow_read_access
    /\ ValueBool(data.block_violations) = o.block_violations
    /\ ValueString(data.rule_type) = o.rule_type
    /\ ValueString(data.block_message) = o.block_message
    /\ ValueString(data.event_detail_url) = o.event_detail_url
    /\ ValueString(data.event_detail_text) = o.event_detail_text
    /\ Elements(data.path_literals) = o.path_literals
    /\ Elements(data.process_team_ids) = o.process_team_ids
ShowsPackageRule(data, o) ==
    /\ data.id = o.rule_id
    /\ ValueString(data.tag) = o.tag /\ ValueString(data.source) = o.source
    /\ ValueString(data.name) = o.name /\ ValueString(data.policy) = o.policy
    /\ ValueString(data.rule_type) = o.rule_type
    /\ ValueString(data.version_regexp) = o.version_regexp
    /\ ValueString(data.min_date) = (IF o.min_date = 0 THEN "" ELSE FormatRFC3339(o.min_date))
    /\ ValueString(data.max_date) = (IF o.max_date = 0 THEN "" ELSE FormatRFC3339(o.max_date))
Shows(k, data, o) ==
    CASE k = "nps_workshop_rule" -> ShowsRule(data, o)
      [] k = "nps_workshop_file_access_rule" -> ShowsFileAccessRule(data, o)
      [] k = "nps_workshop_package_rule" -> ShowsPackageRule(data, o)

\* C13: after a Read that found the remote object, every attribute in the
\* state of a rule, file access rule or package rule equals the value that
\* object holds on the service, emptied values included.
C13_ReadOverwrites ==
    (kind \in ReplaceKinds /\ op = "Read" /\ listed = "found") =>
      /\ tfstate # <<>>
      /\ \E o \in remote : Shows(kind, tfstate[1], o)

\* C14: for every resource type, Read removes the resource from state exactly
\* when its list RPC succeeded and matched no object, and adds no error
\* diagnostic then.
C14_RemovedIffNotFound ==
    op = "Read" =>
      /\ tfstate = <<>> <=> listed = "none"
      /\ listed = "none" =>
            (cdiags = {} /\ Filter(kind, priorState[1], remote) = {})
      /\ listed = "error" => (cdiags # {} /\ tfstate = priorState)

C14_Witness ==
    /\ op = "Read" /\ listed = "none" /\ kind = "nps_workshop_file_access_rule"
    /\ priorState # <<>> /\ tfstate = <<>> /\ cdiags = {}

\* C15: Update of a rule, a file access rule or a package rule adds an error
\* diagnostic, sends no RPC and leaves the state and the service as they were.
C15_UpdateRefuses ==
    (op = "Update" /\ kind \in ReplaceKinds) =>
      /\ cdiags = {ClientError}
      /\ sent = <<>>
      /\ tfstate = priorState
      /\ remote = priorRemote

C15_Witness ==
    /\ op = "Update" /\ IsRule /\ cdiags = {ClientError}
    /\ config # <<>> /\ tfstate # <<>> /\ Differs(kind, config[1], tfstate[1])

\* the state data holds every configured attribute of the configuration
HoldsConfig(k, c, data) == \A a \in (DOMAIN c) \ Computed(k) : data[a] = c[a]

\* C16: a changed configuration of a created nps_workshop_rule applies: once
\* the replacement is through, the state holds the configured values and the
\* service holds exactly one rule matching the configuration.
C16_ChangeApplies ==
    (IsRule /\ op = "Create" /\ replaced) =>
      /\ cdiags = {}
      /\ tfstate # <<>> /\ HoldsConfig(kind, config[1], tfstate[1])
      /\ Cardinality({r \in remote : [r EXCEPT !.rule_id = 0] = RuleOf(config[1])}) = 1

\* C17: the CreateRule request of Create carries every configured attribute of
\* the plan, block_reason among them, and the rule created holds them.
C17_CreateCarriesAll ==
    (IsRule /\ op = "Create" /\ request # <<>>) =>
      /\ request[1] = RuleOf(config[1])
      /\ cdiags = {} =>
            \E r \in remote : /\ r.rule_id = tfstate[1].id
                              /\ [r EXCEPT !.rule_id = 0] = RuleOf(config[1])

\* C19: while every handler succeeded, each tag or API key this provider
\* created and the service still holds is the one the state names, and after
\* a Delete the service holds none of them.
C19_NoOrphan ==
    (kind \in {"nps_workshop_tag", "nps_workshop_apikey"} /\ ~anyError) =>
      /\ \A o \in remote :
            RemoteKey(kind, o) \in made
               => (tfstate # <<>> /\ StateKey(kind, tfstate[1]) = RemoteKey(kind, o))
      /\ op = "Delete" => \A o \in remote : RemoteKey(kind, o) \notin made

====
